---- MODULE Spec2Model ----
(***************************************************************************)
(* Model of the fixed-arity join combinator, src/src/future/join/array.rs. *)
(*                                                                         *)
(* Slots are numbered 1..N here; slot i of the model is index i-1 of the   *)
(* source arrays (futures, items, state, readiness bits).                  *)
(***************************************************************************)
EXTENDS Integers, Sequences, FiniteSets, TLC

\* ---------------------------------------------------------------- bounds
MaxN == 2          \* largest arity N explored by Spec and SpecLive
MaxSusp == 1       \* largest number of "not yet" answers of one sub-operation
MaxCalls == 4      \* poll calls a scheduler makes in Spec
MaxValue == 2      \* sub-operation results are drawn from 1..MaxValue
MaxHandle == 2     \* outer continuation handles are drawn from 1..MaxHandle
MaxOrderN == 4     \* largest arity explored by SpecOrder
MaxOrderK == 3     \* largest number of extra suspensions in SpecOrder
MaxWakes == 3      \* invocations of one slot waker between two claims of its bit

Values == 1..MaxValue
Handles == 1..MaxHandle

\* ------------------------------------------------------- program constants
Uninit == 0        \* MaybeUninit::uninit(): a cell holding no value
NoWaker == 0       \* the bitmap's stored outer handle is absent
Unit == 1          \* the () that test::poll_order's record_poll completes with
BlockOnWaker == 1  \* the one waker block_on polls with

VARIABLES
    N,             \* const N: usize, fixed at construction
    times,         \* times[i]: "not yet" answers sub-operation i gives before it completes
    polls,         \* polls[i]: how often futures[i] has been polled (its own progress)
    consumed,      \* Join.consumed
    pending,       \* Join.pending
    items,         \* Join.items
    state,         \* Join.state (PollArray)
    ready,         \* readiness bits of Join.wakers
    parent_waker,  \* outer continuation handle stored in the bitmap
    lock,          \* owner of the bitmap mutex: "free" or "join"
    pc,            \* position of the poll call: idle, scan, polling, relock, finish
    idx,           \* loop variable i of the scan
    outcome,       \* what the last finished poll call did: none, pending, ready, panic
    result,        \* the aggregate handed out by Poll::Ready
    aggregates,    \* number of aggregates handed out
    calls,         \* number of poll calls begun
    panics,        \* number of poll calls that hit the assert
    woken,         \* outer handle invoked since the latest poll call began (NoWaker: none)
    scanLog,       \* slots polled by the current / latest poll call, in order
    trace,         \* slots polled over the whole lifetime, in order
    returned,      \* returned[i]: the value sub-operation i completed with
    written,       \* written[i]: values written into cell i
    moved,         \* moved[i]: times cell i was moved into an aggregate
    dropCnt,       \* dropCnt[i]: times cell i was dropped by teardown
    dropped,       \* the combinator has been dropped
    supplied,      \* the handle the latest poll call was given (NoWaker: no call yet)
    wakes,         \* wakes[i]: invocations of waker i since bit i was last cleared
    outerCnt       \* outerCnt[i]: outer wakes those invocations caused

vars == <<N, times, polls, consumed, pending, items, state, ready, parent_waker,
          lock, pc, idx, outcome, result, aggregates, calls, panics, woken,
          scanLog, trace, returned, written, moved, dropCnt, dropped, supplied,
          wakes, outerCnt>>

joinVars == <<consumed, pending, items, state>>
histVars == <<returned, written, moved, dropCnt>>
wakeHist == <<wakes, outerCnt>>

Slots == 1..N

\* ------------------------------------------------------------ PollArray
\* PollState values; PollArray::new() starts every slot Pending (test::debug).
PollArrayNew(n) == [i \in 1..n |-> "Pending"]

is_pending(s) == s = "Pending"

is_ready(s) == s = "Ready"

\* --------------------------------------------------------- readiness bitmap
\* WakerArray::new(): every bit starts set.
ReadinessNew(n) == [i \in 1..n |-> TRUE]

any_ready(bits) == \E i \in DOMAIN bits : bits[i]

\* clear_ready(i): test-and-clear; the returned flag is bits[i] before the call.
clear_ready(bits, i) == [bits EXCEPT ![i] = FALSE]

\* set_ready(i): sets the bit; the returned flag is bits[i] before the call.
set_ready(bits, i) == [bits EXCEPT ![i] = TRUE]

\* ------------------------------------------------------------- Join::new
JoinNew(n) ==
    /\ consumed = FALSE
    /\ pending = n
    /\ items = [i \in 1..n |-> Uninit]
    /\ state = PollArrayNew(n)
    /\ ready = ReadinessNew(n)
    /\ parent_waker = NoWaker
    /\ lock = "free"

History(n) ==
    /\ polls = [i \in 1..n |-> 0]
    /\ pc = "idle"
    /\ idx = 0
    /\ outcome = "none"
    /\ result = [i \in 1..n |-> Uninit]
    /\ aggregates = 0
    /\ calls = 0
    /\ panics = 0
    /\ woken = NoWaker
    /\ scanLog = <<>>
    /\ trace = <<>>
    /\ returned = [i \in 1..n |-> Uninit]
    /\ written = [i \in 1..n |-> 0]
    /\ moved = [i \in 1..n |-> 0]
    /\ dropCnt = [i \in 1..n |-> 0]
    /\ dropped = FALSE
    /\ supplied = NoWaker
    /\ wakes = [i \in 1..n |-> 0]
    /\ outerCnt = [i \in 1..n |-> 0]

Init ==
    /\ N \in 0..MaxN
    /\ times \in [1..N -> 0..MaxSusp]
    /\ JoinNew(N)
    /\ History(N)

\* -------------------------------------------------------------- Join::poll
\* Variant: the assert is missing.
PolledAfterCompleting_NoAssert(c) == FALSE

\* Line 86: the condition the assert rejects.
PolledAfterCompleting(c) == c

\* Variant: set_waker is missing.
StoreWaker_Never(stored, h) == stored

\* Variant: the handle is stored by the first poll call only.
StoreWaker_Once(stored, h) == IF stored = NoWaker THEN h ELSE stored

\* Line 91: set_waker(cx.waker()) overwrites the stored handle.
StoreWaker(stored, h) == h

\* Variant: the early return is missing.
NothingReady_Never(bits) == FALSE

\* Line 92: the condition of the early return.
NothingReady(bits) == ~any_ready(bits)

\* Variant: the slot state is tested with is_ready.
ShouldPoll_IsReady(st, bits, i) == is_ready(st[i]) /\ bits[i]

\* Variant: the slot state is not consulted.
ShouldPoll_AnyState(st, bits, i) == bits[i]

\* Variant: the readiness bit is not consulted.
ShouldPoll_Blind(st, bits, i) == is_pending(st[i])

\* Line 99: whether the scan polls slot i.
ShouldPoll(st, bits, i) == is_pending(st[i]) /\ bits[i]

\* Variant: the scan skips every other index.
NextIndex_Skip(i) == i + 2

\* Line 98: the scan moves to the next index.
NextIndex(i) == i + 1

\* Variant: drop(readiness) is missing.
LockWhilePolling_Held == "join"

\* Line 101: who holds the lock while fut.poll runs (drop(readiness) frees it).
LockWhilePolling == "free"

\* Variant: the value goes into the first cell.
StoreItem_First(cells, i, v) == [cells EXCEPT ![1] = v]

\* Line 107: the value goes into the polled slot's cell.
StoreItem(cells, i, v) == [cells EXCEPT ![i] = v]

\* Variant: the counter is decremented twice.
CountDown_Twice(p) == p - 2

\* Variant: the counter is left alone.
CountDown_Forgot(p) == p

\* Line 109.
CountDown(p) == p - 1

\* Variant: completion is declared with one slot still counted.
AllDone_OffByOne(p) == p <= 1

\* Line 118.
AllDone(p) == p = 0

\* Variant: the slots keep their state.
MarkConsumed_Forgot(st) == st

\* Lines 121-127: every slot is marked Consumed.
MarkConsumed(st) == [i \in DOMAIN st |-> "Consumed"]

\* Lines 83-95: the assert, lock, set_waker, any_ready.
PollEnter(h) ==
    /\ pc = "idle"
    /\ ~dropped
    /\ lock = "free"
    /\ calls' = calls + 1
    /\ woken' = NoWaker
    /\ supplied' = h
    /\ IF PolledAfterCompleting(consumed)
       THEN /\ outcome' = "panic"
            /\ panics' = panics + 1
            /\ UNCHANGED <<parent_waker, lock, pc, idx, scanLog>>
       ELSE /\ parent_waker' = StoreWaker(parent_waker, h)
            /\ scanLog' = <<>>
            /\ panics' = panics
            /\ IF NothingReady(ready)
               THEN /\ outcome' = "pending"
                    /\ UNCHANGED <<lock, pc, idx>>
               ELSE /\ lock' = "join"
                    /\ pc' = "scan"
                    /\ idx' = 1
                    /\ outcome' = outcome
    /\ UNCHANGED <<N, times, polls, joinVars, ready, result, aggregates, trace,
                   histVars, dropped, wakeHist>>

\* Lines 98-104: one iteration of the scan up to the call of fut.poll.
ScanStep ==
    /\ pc = "scan"
    /\ idx <= N
    /\ IF ShouldPoll(state, ready, idx)
       THEN /\ ready' = clear_ready(ready, idx)
            /\ lock' = LockWhilePolling
            /\ pc' = "polling"
            /\ polls' = [polls EXCEPT ![idx] = @ + 1]
            /\ scanLog' = Append(scanLog, idx)
            /\ trace' = Append(trace, idx)
            /\ wakes' = [wakes EXCEPT ![idx] = 0]
            /\ outerCnt' = [outerCnt EXCEPT ![idx] = 0]
            /\ idx' = idx
       ELSE /\ idx' = NextIndex(idx)
            /\ UNCHANGED <<ready, lock, pc, polls, scanLog, trace, wakeHist>>
    /\ UNCHANGED <<N, times, joinVars, parent_waker, outcome, result, aggregates,
                   calls, panics, woken, histVars, dropped, supplied>>

\* Line 98: the iterator is exhausted.
ScanEnd ==
    /\ pc = "scan"
    /\ idx > N
    /\ pc' = "finish"
    /\ UNCHANGED <<N, times, polls, joinVars, ready, parent_waker, lock, idx,
                   outcome, result, aggregates, calls, panics, woken, scanLog,
                   trace, histVars, dropped, supplied, wakeHist>>

\* Lines 106-110: fut.poll returned Poll::Ready(value).
SubReady(v) ==
    /\ pc = "polling"
    /\ polls[idx] > times[idx]
    /\ items' = StoreItem(items, idx, v)
    /\ state' = [state EXCEPT ![idx] = "Ready"]
    /\ pending' = CountDown(pending)
    /\ returned' = [returned EXCEPT ![idx] = v]
    /\ written' = [written EXCEPT ![idx] = @ + 1]
    /\ pc' = "relock"
    /\ UNCHANGED <<N, times, polls, consumed, ready, parent_waker, lock, idx,
                   outcome, result, aggregates, calls, panics, woken, scanLog,
                   trace, moved, dropCnt, dropped, supplied, wakeHist>>

\* Line 106: fut.poll returned Poll::Pending.
SubPending ==
    /\ pc = "polling"
    /\ polls[idx] <= times[idx]
    /\ pc' = "relock"
    /\ UNCHANGED <<N, times, polls, joinVars, ready, parent_waker, lock, idx,
                   outcome, result, aggregates, calls, panics, woken, scanLog,
                   trace, histVars, dropped, supplied, wakeHist>>

\* Line 113: the lock is taken again and the loop moves on.
Relock ==
    /\ pc = "relock"
    /\ lock = "free"
    /\ lock' = "join"
    /\ idx' = NextIndex(idx)
    /\ pc' = "scan"
    /\ UNCHANGED <<N, times, polls, joinVars, ready, parent_waker, outcome, result,
                   aggregates, calls, panics, woken, scanLog, trace, histVars,
                   dropped, supplied, wakeHist>>

\* array_assume_init: a written cell yields its value, an unwritten one anything.
AssumeInit(cells) ==
    {r \in [DOMAIN cells -> Values \cup {Uninit}] :
        \A i \in DOMAIN cells : cells[i] # Uninit => r[i] = cells[i]}

\* Lines 118-139: completion check, hand-out of the aggregate, return.
Finish ==
    /\ pc = "finish"
    /\ IF AllDone(pending)
       THEN /\ consumed' = TRUE
            /\ state' = MarkConsumed(state)
            /\ result' \in AssumeInit(items)
            /\ items' = [i \in Slots |-> Uninit]
            /\ moved' = [i \in Slots |-> moved[i] + 1]
            /\ aggregates' = aggregates + 1
            /\ outcome' = "ready"
       ELSE /\ outcome' = "pending"
            /\ UNCHANGED <<consumed, state, result, items, moved, aggregates>>
    /\ lock' = "free"
    /\ pc' = "idle"
    /\ UNCHANGED <<N, times, polls, pending, ready, parent_waker, idx, calls,
                   panics, woken, scanLog, trace, returned, written, dropCnt,
                   dropped, supplied, wakeHist>>

\* ------------------------------------------------------ per-slot waker
\* The outer handle last invoked, after waker i ran on bits: a bit that was clear
\* wakes the stored handle, a bit that was already set wakes nobody.
WakeOuter(bits, i, stored, last) ==
    IF ~bits[i] /\ stored # NoWaker THEN stored ELSE last

\* The number of outer wakes one invocation of waker i causes: 1 or 0.
WakeOuterCount(bits, i, stored) ==
    IF ~bits[i] /\ stored # NoWaker THEN 1 ELSE 0

\* Waker i, handed to sub-operation i by its first poll, is invoked from any
\* thread while its bit is clear: it takes the lock, sets the bit and wakes the
\* outer handle.
Wake(i) ==
    /\ polls[i] > 0
    /\ ~dropped
    /\ lock = "free"
    /\ ~ready[i]
    /\ ready' = set_ready(ready, i)
    /\ woken' = WakeOuter(ready, i, parent_waker, woken)
    /\ wakes' = [wakes EXCEPT ![i] = @ + 1]
    /\ outerCnt' = [outerCnt EXCEPT ![i] = @ + WakeOuterCount(ready, i, parent_waker)]
    /\ UNCHANGED <<N, times, polls, joinVars, parent_waker, lock, pc, idx, outcome,
                   result, aggregates, calls, panics, scanLog, trace, histVars,
                   dropped, supplied>>

\* Waker i is invoked once more while its bit is still set.
WakeAgain(i) ==
    /\ polls[i] > 0
    /\ ~dropped
    /\ lock = "free"
    /\ ready[i]
    /\ wakes[i] < MaxWakes
    /\ ready' = set_ready(ready, i)
    /\ woken' = WakeOuter(ready, i, parent_waker, woken)
    /\ wakes' = [wakes EXCEPT ![i] = @ + 1]
    /\ outerCnt' = [outerCnt EXCEPT ![i] = @ + WakeOuterCount(ready, i, parent_waker)]
    /\ UNCHANGED <<N, times, polls, joinVars, parent_waker, lock, pc, idx, outcome,
                   result, aggregates, calls, panics, scanLog, trace, histVars,
                   dropped, supplied>>

\* futures_lite::future::yield_now inside sub-operation idx: it invokes its own
\* waker and answers Poll::Pending.
SubYield ==
    /\ pc = "polling"
    /\ polls[idx] <= times[idx]
    /\ lock = "free"
    /\ ready' = set_ready(ready, idx)
    /\ woken' = WakeOuter(ready, idx, parent_waker, woken)
    /\ wakes' = [wakes EXCEPT ![idx] = @ + 1]
    /\ outerCnt' = [outerCnt EXCEPT ![idx] = @ + WakeOuterCount(ready, idx, parent_waker)]
    /\ pc' = "relock"
    /\ UNCHANGED <<N, times, polls, joinVars, parent_waker, lock, idx, outcome,
                   result, aggregates, calls, panics, scanLog, trace, histVars,
                   dropped, supplied>>

\* ------------------------------------------------------ PinnedDrop::drop
\* Variant: the filter on is_ready is missing.
DropIndexes_All(st) == DOMAIN st

\* Lines 152-157: the indexes of the initialized values.
DropIndexes(st) == {i \in DOMAIN st : is_ready(st[i])}

Drop ==
    /\ pc = "idle"
    /\ ~dropped
    /\ dropped' = TRUE
    /\ dropCnt' = [i \in Slots |-> IF i \in DropIndexes(state) THEN dropCnt[i] + 1
                                   ELSE dropCnt[i]]
    /\ UNCHANGED <<N, times, polls, joinVars, ready, parent_waker, lock, pc, idx,
                   outcome, result, aggregates, calls, panics, woken, scanLog,
                   trace, returned, written, moved, supplied, wakeHist>>

\* ------------------------------------------------------------ specification
Next ==
    \/ \E h \in Handles : calls < MaxCalls /\ PollEnter(h)
    \/ ScanStep
    \/ ScanEnd
    \/ \E v \in Values : SubReady(v)
    \/ SubPending
    \/ Relock
    \/ Finish
    \/ \E i \in Slots : Wake(i)
    \/ Drop

Spec == Init /\ [][Next]_vars

\* A scheduler in the manner of block_on: it polls once, then again whenever the
\* handle it supplied was invoked, and stops when it has the aggregate.
SchedPoll(h) ==
    /\ aggregates = 0
    /\ calls = 0 \/ woken # NoWaker
    /\ PollEnter(h)

PollSteps ==
    \/ ScanStep
    \/ ScanEnd
    \/ Relock
    \/ Finish

\* Sub-operations that invoke their own waker before every "not yet"; wakers may
\* also be invoked from other threads.
NextLive ==
    \/ \E h \in Handles : SchedPoll(h)
    \/ PollSteps
    \/ \E v \in Values : SubReady(v)
    \/ SubYield
    \/ \E i \in Slots : Wake(i)

Progress ==
    \/ \E h \in Handles : SchedPoll(h)
    \/ PollSteps
    \/ \E v \in Values : SubReady(v)
    \/ SubYield

SpecLive == Init /\ [][NextLive]_vars /\ WF_vars(Progress)

\* test::poll_order: record_poll(id, times) futures driven by block_on.
InitOrder ==
    /\ N \in 1..MaxOrderN
    /\ times \in [1..N -> 0..MaxOrderK]
    /\ JoinNew(N)
    /\ History(N)

NextOrder ==
    \/ SchedPoll(BlockOnWaker)
    \/ PollSteps
    \/ SubReady(Unit)
    \/ SubYield

SpecOrder == InitOrder /\ [][NextOrder]_vars

\* A scheduler that brings a handle different from the previous one to every
\* poll call (cx.waker() of call number c + 1).
HandleOfCall(c) == (c % MaxHandle) + 1

\* Wakers invoked any number of times, also while their bit is set, under a
\* scheduler that changes its handle from call to call; the values play no part
\* and are fixed.
NextWake ==
    \/ calls < MaxCalls /\ PollEnter(HandleOfCall(calls))
    \/ PollSteps
    \/ SubReady(Unit)
    \/ SubPending
    \/ \E i \in Slots : Wake(i)
    \/ \E i \in Slots : WakeAgain(i)

SpecWake == Init /\ [][NextWake]_vars

\* ==================================================================== claims

Ascending(seq) == \A a, b \in DOMAIN seq : a < b => seq[a] < seq[b]

IsPrefix(a, b) == Len(a) <= Len(b) /\ SubSeq(b, 1, Len(a)) = a

\* C1: once the aggregate has been returned, its element i is the value that
\* sub-operation i completed with, whatever the order of completion was.
C1_OrderPreserved ==
    aggregates >= 1 =>
        \A i \in Slots : returned[i] # Uninit /\ result[i] = returned[i]

\* Slot 2 completed in an earlier poll call than slot 1, with a different value.
C1_Witness ==
    /\ aggregates = 1
    /\ N >= 2
    /\ times[1] > times[2]
    /\ result[1] # result[2]

\* C2: a poll call begun after the aggregate was returned hits the assert: it
\* returns no aggregate and no "not yet", and polls no sub-operation; this holds
\* for every such call.
C2_PollAfterCompletionPanics ==
    [][(aggregates >= 1 /\ calls' # calls) =>
          /\ outcome' = "panic"
          /\ panics' = panics + 1
          /\ pc' = "idle"
          /\ aggregates' = aggregates
          /\ result' = result
          /\ polls' = polls
          /\ trace' = trace]_vars

\* Two poll calls after completion, both failed.
C2_Witness == aggregates = 1 /\ panics >= 2 /\ outcome = "panic"

\* C3: a cell is never moved or dropped more often than it was written, and
\* at the end of the lifetime every written value has been moved into the
\* aggregate or dropped by teardown, exactly once in all.
C3_ExactlyOnce ==
    /\ \A i \in Slots : written[i] <= 1 /\ moved[i] + dropCnt[i] <= written[i]
    /\ dropped => \A i \in Slots : moved[i] + dropCnt[i] = written[i]

\* Dropped mid-flight: one slot Ready (its value dropped), another Pending.
C3_Witness ==
    /\ dropped
    /\ \E i, j \in Slots :
          /\ state[i] = "Ready" /\ dropCnt[i] = 1 /\ moved[i] = 0
          /\ state[j] = "Pending" /\ dropCnt[j] = 0

\* Dropped after the aggregate was returned: every value moved, none dropped.
C3_WitnessAfter ==
    /\ dropped
    /\ aggregates = 1
    /\ N >= 1
    /\ \A i \in Slots : moved[i] = 1 /\ dropCnt[i] = 0

\* C4: with N >= 1, sub-operations that wake their slot before each "not yet"
\* and a scheduler that re-polls after every outer wake, the aggregate is
\* eventually returned.
C4_EventuallyAggregate == (N >= 1) => <>(aggregates = 1)

\* The aggregate was returned although a sub-operation suspended first.
C4_Witness ==
    /\ aggregates = 1
    /\ N >= 1
    /\ \E i \in Slots : times[i] >= 1
    /\ calls >= 2

\* C5: while a sub-operation's poll runs the lock is free, so the slot's own
\* waker (and any other) can take it.
C5_LockFreeWhilePolling ==
    pc = "polling" => (lock = "free" /\ ENABLED (Wake(idx) \/ WakeAgain(idx)))

\* A waker ran while the sub-operation was being polled: the bit claimed by
\* the scan is set again and the outer handle was invoked.
C5_Witness == pc = "polling" /\ ready[idx] /\ woken # NoWaker

\* C6: the scan polls a slot exactly when, on reaching it, the slot is Pending
\* with its bit set; the slots polled by one call are in strictly ascending
\* order, so none is polled twice in the call.
C6_ScanOrder ==
    [][/\ (pc = "scan" /\ idx <= N /\ pc' # pc) =>
            /\ state[idx] = "Pending" /\ ready[idx]
            /\ scanLog' = Append(scanLog, idx)
       /\ (pc = "scan" /\ idx <= N /\ state[idx] = "Pending" /\ ready[idx]) =>
            pc' = "polling" /\ scanLog' = Append(scanLog, idx)
       /\ (scanLog' # scanLog /\ scanLog' # <<>>) =>
            pc = "scan" /\ pc' = "polling"
       /\ (pc = "scan" /\ idx <= N) => idx' \in {idx, idx + 1}
       /\ Ascending(scanLog')]_vars

\* Slot 1's waker ran again after slot 1 was polled; the call polled slot 1
\* and slot 2 once each and left slot 1's bit for a later call.
C6_Witness ==
    /\ pc = "finish"
    /\ N >= 2
    /\ scanLog = <<1, 2>>
    /\ state[1] = "Pending"
    /\ ready[1]

\* The slots that need at least r extra suspensions, in ascending order.
Round(r) == SelectSeq([i \in 1..N |-> i], LAMBDA i : times[i] >= r)

RECURSIVE Rounds(_)
\* Rounds r, r+1, ... one after the other, up to the last non-empty one.
Rounds(r) == IF Round(r) = <<>> THEN <<>> ELSE Round(r) \o Rounds(r + 1)

\* C7: with sub-operations that yield times[i] times and a scheduler that
\* re-polls after each outer wake, the sub-operations are polled round by
\* round, round r being the slots with times[i] >= r in ascending order; the
\* two traces of test::poll_order are [a,b,c,b] and [a,b,c,d,a,b,c,a,b,b].
C7_PollOrder ==
    /\ IsPrefix(trace, Rounds(0))
    /\ aggregates = 1 => trace = Rounds(0)
    /\ (aggregates = 1 /\ times = <<0, 1, 0>>) => trace = <<1, 2, 3, 2>>
    /\ (aggregates = 1 /\ times = <<2, 3, 1, 0>>) =>
          trace = <<1, 2, 3, 4, 1, 2, 3, 1, 2, 2>>

\* The four-operation run of test::poll_order has completed.
C7_Witness == aggregates = 1 /\ times = <<2, 3, 1, 0>> /\ Len(trace) = 10

\* C8: with N >= 1 the first poll call polls each of the N sub-operations
\* once, in index order, whether or not a waker ran; if every sub-operation
\* completes on its first poll, that call returns the aggregate.
C8_FirstPollAll ==
    (N >= 1 /\ calls = 1) =>
        /\ IsPrefix(scanLog, [i \in 1..N |-> i])
        /\ pc = "idle" =>
              /\ scanLog = [i \in 1..N |-> i]
              /\ (\A i \in Slots : times[i] = 0) =>
                    (outcome = "ready" /\ aggregates = 1)

\* The first poll call returned the aggregate of two sub-operations and no
\* waker had run.
C8_Witness ==
    /\ calls = 1
    /\ pc = "idle"
    /\ N >= 2
    /\ outcome = "ready"
    /\ woken = NoWaker
    /\ \A i \in Slots : ~ready[i]

\* C9: between operations, a combinator that was never polled has every slot
\* Pending and consumed false; consumed implies every slot Consumed; and once
\* the aggregate has been returned every slot is Consumed.
C9_StateBetweenOperations ==
    pc = "idle" =>
        /\ calls = 0 => (~consumed /\ \A i \in Slots : state[i] = "Pending")
        /\ consumed => \A i \in Slots : state[i] = "Consumed"
        /\ aggregates >= 1 => (consumed /\ \A i \in Slots : state[i] = "Consumed")

\* Right after the poll call that returned an aggregate of two.
C9_Witness == pc = "idle" /\ outcome = "ready" /\ N >= 2 /\ consumed

\* C10: pending is the number of slots in state Pending, in every state,
\* also between the slot polls of one poll call; it is never negative.
C10_PendingCount ==
    /\ pending = Cardinality({i \in Slots : state[i] = "Pending"})
    /\ pending >= 0

\* Inside a poll call, after one slot completed and before the next is polled.
C10_Witness ==
    /\ pc = "relock"
    /\ N >= 2
    /\ pending = N - 1
    /\ state[idx] = "Ready"

\* C11: no step moves a slot otherwise than Pending -> Ready or
\* Ready -> Consumed; poll, waker and teardown steps included.
C11_MonotonicSlotState ==
    [][\A i \in Slots :
          \/ state'[i] = state[i]
          \/ state[i] = "Pending" /\ state'[i] = "Ready"
          \/ state[i] = "Ready" /\ state'[i] = "Consumed"]_vars

\* Both slots went Pending -> Ready -> Consumed, in different poll calls; a
\* waker ran afterwards and the combinator was torn down.
C11_Witness ==
    /\ N >= 2
    /\ dropped
    /\ calls >= 2
    /\ \A i \in Slots : state[i] = "Consumed" /\ written[i] = 1
    /\ \E i \in Slots : ready[i]

\* The latest poll call did not hit the assert.
LastCallStored == calls >= 1 /\ (pc # "idle" \/ outcome # "panic")

\* C12: a poll call that does not fail stores the handle it was given, and an
\* outer wake caused by a slot waker invokes the handle of the latest such
\* call, never an earlier call's handle.
C12_LatestHandleWoken ==
    LastCallStored =>
        /\ parent_waker = supplied
        /\ woken # NoWaker => woken = supplied

\* A slot waker caused an outer wake after a second or later poll call, which
\* had brought another handle than the call before it.
C12_Witness ==
    /\ calls >= 2
    /\ LastCallStored
    /\ supplied = HandleOfCall(calls - 1)
    /\ supplied # HandleOfCall(calls - 2)
    /\ woken = supplied
    /\ \E i \in Slots : wakes[i] >= 1 /\ outerCnt[i] = 1

\* C13: after k >= 1 invocations of waker i since bit i was last cleared, bit
\* i is set and the outer handle has been invoked once on their account.
C13_WakesCollapse ==
    \A i \in Slots : wakes[i] >= 1 => (ready[i] /\ outerCnt[i] = 1)

\* Waker i ran MaxWakes times on a Pending slot before the next claim.
C13_Witness ==
    \E i \in Slots :
        /\ wakes[i] = MaxWakes
        /\ state[i] = "Pending"
        /\ ready[i]
        /\ outerCnt[i] = 1
        /\ woken # NoWaker

\* C14: a poll call that passes the assert and ends with pending = 0 returns
\* the aggregate; in particular the first poll of a combinator with N = 0.
C14_ZeroPendingCompletes ==
    (pc = "idle" /\ calls >= 1 /\ outcome # "panic" /\ pending = 0) =>
        outcome = "ready"

\* C15: when the scan ends with pending = 0, every slot is Ready and its cell
\* holds the value its sub-operation returned; no cell is moved into the
\* aggregate unwritten.
C15_CompleteMeansWritten ==
    /\ (pc = "finish" /\ pending = 0) =>
          \A i \in Slots :
              /\ state[i] = "Ready"
              /\ items[i] # Uninit
              /\ items[i] = returned[i]
    /\ \A i \in Slots : moved[i] >= 1 => written[i] = 1

\* The scan of a second or later poll call ended with pending = 0 for two
\* slots that completed in different calls.
C15_Witness ==
    /\ pc = "finish"
    /\ pending = 0
    /\ N >= 2
    /\ calls >= 2
    /\ Len(scanLog) < N

\* C16: a sub-operation whose slot has left Pending is not polled by any
\* later step, whether or not its waker has set its bit again.
C16_NoPollAfterComplete ==
    [][\A i \in Slots : state[i] # "Pending" => polls'[i] = polls[i]]_vars

\* Slot 1 completed on its only poll and its waker ran afterwards; a later
\* poll call scanned past its set bit without polling it.
C16_Witness ==
    /\ N >= 2
    /\ pc = "idle"
    /\ calls >= 2
    /\ outcome = "pending"
    /\ state[1] = "Ready"
    /\ ready[1]
    /\ polls[1] = 1
    /\ scanLog = <<>>

\* C17: no state has the combinator returned "not yet ready" with a Pending
\* slot whose bit is set while the handle stored by that poll call has not
\* been invoked since the call began.
C17_NoLostWake ==
    ~ /\ pc = "idle"
      /\ outcome = "pending"
      /\ woken = NoWaker
      /\ \E i \in Slots : state[i] = "Pending" /\ ready[i]

\* The call polled slots 1 and 2, slot 1 answered "not yet", its waker ran
\* when the scan had passed it, and the call returned "not yet ready" with
\* the stored handle invoked.
C17_Witness ==
    /\ pc = "idle"
    /\ outcome = "pending"
    /\ N >= 2
    /\ scanLog = <<1, 2>>
    /\ state[1] = "Pending"
    /\ ready[1]
    /\ wakes[1] = 1
    /\ woken = parent_waker
    /\ woken # NoWaker

\* C18: a poll call that passes the assert and finds no bit set returns "not
\* yet ready", stores its handle and changes nothing else: no sub-operation
\* is polled, and slot states, pending, cells, bits and consumed stay.
C18_IdlePollFrame ==
    [][(calls' # calls /\ ~consumed /\ ~any_ready(ready)) =>
          /\ outcome' = "pending"
          /\ pc' = "idle"
          /\ parent_waker' = supplied'
          /\ UNCHANGED <<state, pending, items, ready, consumed, lock>>
          /\ UNCHANGED <<polls, trace, result, aggregates>>]_vars

\* A second or later poll call found every bit clear with a slot still
\* Pending, and returned "not yet ready" without polling.
C18_Witness ==
    /\ pc = "idle"
    /\ outcome = "pending"
    /\ calls >= 2
    /\ N >= 1
    /\ pending >= 1
    /\ scanLog = <<>>
    /\ woken = NoWaker
    /\ parent_waker = supplied
    /\ \A i \in Slots : ~ready[i]

\* C19: a slot waker exists only once its sub-operation has been polled, and
\* by then a handle is stored: no waker runs with the stored handle absent.
C19_HandleStoredBeforeWakers ==
    \A i \in Slots :
        /\ polls[i] > 0 => parent_waker # NoWaker
        /\ wakes[i] >= 1 => (polls[i] > 0 /\ parent_waker # NoWaker)

\* A sub-operation's waker ran while it was being polled for the first time,
\* in the first poll call, and found the handle of that call.
C19_Witness ==
    /\ calls = 1
    /\ pc = "polling"
    /\ polls[idx] = 1
    /\ wakes[idx] = 1
    /\ parent_waker = supplied
    /\ woken = parent_waker

\* C20 as stated: every poll call that gets past the any_ready check polls at
\* least one sub-operation.
C20_EveryScanPolls == pc = "finish" => scanLog # <<>>

\* C20 as amended: a poll call that gets past the any_ready check and polls
\* nothing found bits set only for slots that are no longer Pending; the bit
\* of a slot that is no longer Pending is never cleared.
C20_StaleBitsStay ==
    [][/\ (pc = "scan" /\ pc' = "finish" /\ scanLog = <<>>) =>
            /\ \E i \in Slots : state[i] # "Pending" /\ ready[i]
            /\ \A i \in Slots : state[i] = "Pending" => ~ready[i]
       /\ \A i \in Slots : (state[i] # "Pending" /\ ready[i]) => ready'[i]]_vars

\* A scan ended without a poll: slot 1 is Ready with its bit set by its waker,
\* another slot is still Pending with its bit clear.
C20_Witness ==
    /\ pc = "finish"
    /\ scanLog = <<>>
    /\ state[1] = "Ready"
    /\ ready[1]
    /\ wakes[1] >= 1
    /\ \E j \in Slots : state[j] = "Pending" /\ ~ready[j]

====
